---- MODULE Spec2Model ----
(***************************************************************************)
(* Model of the card appraisal workflow component CardAppraisalApp         *)
(* (src/unnamed/part_001): the four capture steps, the crop modal, the     *)
(* object URLs of the previews, the appraisal request and the reset.       *)
(*                                                                         *)
(* Every event handler of the component is one action.  The three          *)
(* asynchronous completions of the component (FileReader.onload, the       *)
(* canvas.toBlob callback and the settling of fetch) are actions of their  *)
(* own, so that other events may happen between a handler and its          *)
(* completion.  A click on a button that is disabled or not rendered is a  *)
(* step that changes nothing.  The crop modal is a fixed full-screen       *)
(* overlay: while it is shown the buttons underneath receive no click.     *)
(***************************************************************************)
EXTENDS Integers, Sequences, FiniteSets, TLC

(***************************************************************************)
(* Bounds of the model.                                                    *)
(***************************************************************************)
MaxHandles == 4      \* object URLs created in one behaviour of Spec
MaxHandlesResubmit == 8   \* object URLs created in one behaviour of SpecResubmit
MaxHandlesRecapture == 5  \* object URLs created in one behaviour of SpecRecapture
MaxPending == 1      \* FileReader loads and canvas.toBlob callbacks pending at once
MaxFetches == 2      \* fetch calls pending at once
MaxScale == 2        \* native size / displayed size of the image in the modal
DisplayDim == 2      \* displayed width and height of the image in the modal
MaxGrade == 2        \* overallGrade values the service answers with

(***************************************************************************)
(* steps (part_001:48-53) and the keys of images.                          *)
(***************************************************************************)
steps == <<"front", "back", "topLeft", "bottomRight">>

StepKeys == {steps[i] : i \in 1..Len(steps)}

(***************************************************************************)
(* null of each nullable piece of state.                                   *)
(***************************************************************************)
NoImage == [file |-> 0, preview |-> 0]

NoKey == "null"

NoSrc == "null"

NoCrop == [x |-> 0, y |-> 0, width |-> -1, height |-> -1]

NoImg == [naturalWidth |-> 0, naturalHeight |-> 0, width |-> 0, height |-> 0]

NoFormData == [k \in StepKeys |-> 0]
NoResult == [overallGrade |-> 0]

VARIABLES
    currentStep,      \* useState(0)
    images,           \* useState({}): key -> UploadedImage or NoImage
    isLoading,        \* useState(false)
    result,           \* useState(null)
    showCropper,      \* useState(false)
    completedCrop,    \* useState(null)
    cropImageSrc,     \* useState(null)
    imageRef,         \* useRef(null): the <img> of the modal
    pendingStepKey,   \* useState(null)
    readers,          \* FileReader loads in progress: the stepKey of each
    blobs,            \* canvas.toBlob callbacks not yet run
    fetches,          \* fetch calls not yet settled
    objectURLs,       \* the URLs made by URL.createObjectURL, in order of
                      \* creation: the number of URL.revokeObjectURL calls on each
    toast,            \* title of the last notice given to toast()
    flowHasSelection, \* history: onComplete has run since the crop modal was
                      \* last opened, and the modal has not been closed since
    resultFormData    \* history: the form data of the request whose response
                      \* result holds

vars == <<currentStep, images, isLoading, result, showCropper, completedCrop,
          cropImageSrc, imageRef, pendingStepKey, readers, blobs, fetches,
          objectURLs, toast, flowHasSelection, resultFormData>>

cropVars == <<showCropper, completedCrop, cropImageSrc, imageRef, pendingStepKey,
              flowHasSelection>>

asyncVars == <<readers, blobs, fetches>>

----------------------------------------------------------------------------
(***************************************************************************)
(* Inputs.                                                                 *)
(***************************************************************************)
ImagePrefix == <<"i", "m", "a", "g", "e", "/">>

\* content types of the files the picker hands over, as character sequences
ContentTypes ==
    { <<"i", "m", "a", "g", "e", "/", "p", "n", "g">>,
      <<"i", "m", "a", "g", "e">>,
      <<"t", "e", "x", "t", "/", "i", "m", "a", "g", "e", "/">>,
      <<>> }

\* event.target.files: empty, or one file
FileLists == {<<>>} \cup {<<[type |-> t]>> : t \in ContentTypes}

\* the <img> elements the modal can show: native size and displayed size
ImgElements ==
    { [naturalWidth |-> DisplayDim * s, naturalHeight |-> DisplayDim * s,
       width |-> DisplayDim, height |-> DisplayDim] : s \in 1..MaxScale }

\* the rectangles a drag over the displayed image img can end with
Selections(img) ==
    { [x |-> 0, y |-> 0, width |-> img.width, height |-> img.height],
      [x |-> 0, y |-> 0, width |-> img.width, height |-> img.height \div 2],
      [x |-> 0, y |-> 0, width |-> 0, height |-> 0] }

Grades == 1..MaxGrade

----------------------------------------------------------------------------
(***************************************************************************)
(* Derived values of a render (part_001:123-125, 198-201, 206).            *)
(***************************************************************************)
\* allImagesUploaded without the last slot
allImagesUploaded_ThreeSlots ==
    /\ images["front"] # NoImage
    /\ images["back"] # NoImage
    /\ images["topLeft"] # NoImage

allImagesUploaded ==
    /\ images["front"] # NoImage
    /\ images["back"] # NoImage
    /\ images["topLeft"] # NoImage
    /\ images["bottomRight"] # NoImage

currentStepKey == steps[currentStep + 1]

isCurrentStepComplete == images[currentStepKey] # NoImage

isLastStep == currentStep = Len(steps) - 1

ModalOpen == showCropper /\ cropImageSrc # NoSrc

\* String.prototype.includes in place of startsWith
StartsWith_Includes(s, prefix) ==
    \E o \in 0..(Len(s) - Len(prefix)) :
       \A i \in 1..Len(prefix) : s[o + i] = prefix[i]

\* String.prototype.startsWith
StartsWith(s, prefix) ==
    /\ Len(s) >= Len(prefix)
    /\ \A i \in 1..Len(prefix) : s[i] = prefix[i]

\* object URLs created and not revoked
Live == {h \in 1..Len(objectURLs) : objectURLs[h] = 0}

\* the steps shown as completed (part_001:327)
FilledSlots == {k \in StepKeys : images[k].preview # 0}

Remove(seq, i) == SubSeq(seq, 1, i - 1) \o SubSeq(seq, i + 1, Len(seq))

----------------------------------------------------------------------------
Init ==
    /\ currentStep = 0
    /\ images = [k \in StepKeys |-> NoImage]
    /\ isLoading = FALSE
    /\ result = NoResult
    /\ showCropper = FALSE
    /\ completedCrop = NoCrop
    /\ cropImageSrc = NoSrc
    /\ imageRef = NoImg
    /\ pendingStepKey = NoKey
    /\ readers = <<>>
    /\ blobs = <<>>
    /\ fetches = <<>>
    /\ objectURLs = <<>>
    /\ toast = "none"
    /\ flowHasSelection = FALSE
    /\ resultFormData = NoFormData

----------------------------------------------------------------------------
(***************************************************************************)
(* handleFileSelect (part_001:56-75), called with the key of the current   *)
(* step (part_001:274).                                                    *)
(***************************************************************************)
handleFileSelect(stepKey, files) ==
    IF files = <<>> \/ ~StartsWith(files[1].type, ImagePrefix)
    THEN /\ toast' = "Invalid file"
         /\ UNCHANGED <<currentStep, images, isLoading, result, resultFormData, cropVars,
                        asyncVars, objectURLs>>
    ELSE /\ readers' = Append(readers, stepKey)
         /\ UNCHANGED <<currentStep, images, isLoading, result, resultFormData, cropVars,
                        blobs, fetches, objectURLs, toast>>

\* the file input of the current step (part_001:269-275); a load is started
\* only while the bounds leave room for it and for the URL it ends in
SelectFileUpTo(limit, files) ==
    /\ ~ModalOpen
    /\ (files # <<>> /\ StartsWith(files[1].type, ImagePrefix)) =>
          /\ Len(readers) + Len(blobs) < MaxPending
          /\ Len(objectURLs) + Len(readers) + Len(blobs) < limit
    /\ handleFileSelect(currentStepKey, files)

SelectFile(files) == SelectFileUpTo(MaxHandles, files)

\* reader.onload (part_001:69-73)
ReaderOnload(i) ==
    /\ i \in 1..Len(readers)
    /\ cropImageSrc' = "data"
    /\ pendingStepKey' = readers[i]
    /\ showCropper' = TRUE
    /\ flowHasSelection' = FALSE
    /\ readers' = Remove(readers, i)
    /\ UNCHANGED <<currentStep, images, isLoading, result, resultFormData, completedCrop,
                   imageRef, blobs, fetches, objectURLs, toast>>

\* onImageLoaded (part_001:77-79, 215)
onImageLoaded(img) ==
    /\ imageRef' = img
    /\ UNCHANGED <<currentStep, images, isLoading, result, resultFormData, showCropper,
                   completedCrop, cropImageSrc, pendingStepKey, asyncVars,
                   objectURLs, toast, flowHasSelection>>

ImageLoaded(img) ==
    /\ ModalOpen
    /\ onImageLoaded(img)

\* onComplete={setCompletedCrop} (part_001:212)
CropComplete(c) ==
    /\ ModalOpen
    /\ imageRef # NoImg
    /\ c \in Selections(imageRef)
    /\ completedCrop' = c
    /\ flowHasSelection' = TRUE
    /\ UNCHANGED <<currentStep, images, isLoading, result, resultFormData, showCropper,
                   cropImageSrc, imageRef, pendingStepKey, asyncVars,
                   objectURLs, toast>>

\* Cancel button (part_001:219)
ClickCancel ==
    /\ ModalOpen
    /\ showCropper' = FALSE
    /\ flowHasSelection' = FALSE
    /\ UNCHANGED <<currentStep, images, isLoading, result, resultFormData, completedCrop,
                   cropImageSrc, imageRef, pendingStepKey, asyncVars,
                   objectURLs, toast>>

(***************************************************************************)
(* handleCropDone up to the call of canvas.toBlob (part_001:81-104).       *)
(***************************************************************************)
\* scaleX and scaleY (part_001:85-86), as fractions
scaleX == [num |-> imageRef.naturalWidth, den |-> imageRef.width]

scaleY == [num |-> imageRef.naturalHeight, den |-> imageRef.height]

\* the rectangle of the image that drawImage copies (part_001:92-97): each
\* coordinate a fraction, in native pixels
SourceRect ==
    [x |-> [num |-> completedCrop.x * scaleX.num, den |-> scaleX.den],
     y |-> [num |-> completedCrop.y * scaleY.num, den |-> scaleY.den],
     width |-> [num |-> completedCrop.width * scaleX.num, den |-> scaleX.den],
     height |-> [num |-> completedCrop.height * scaleY.num, den |-> scaleY.den]]

\* canvas.width and canvas.height (part_001:87-88)
CanvasWidth == completedCrop.width

CanvasHeight == completedCrop.height

handleCropDone ==
    IF completedCrop = NoCrop \/ imageRef = NoImg \/ pendingStepKey = NoKey
    THEN UNCHANGED vars
    ELSE /\ blobs' = Append(blobs, [key |-> pendingStepKey,
                                    width |-> CanvasWidth,
                                    height |-> CanvasHeight,
                                    source |-> SourceRect])
         /\ UNCHANGED <<currentStep, images, isLoading, result, resultFormData, cropVars,
                        readers, fetches, objectURLs, toast>>

\* a Done button that exists outside the modal as well
ClickDoneUpTo_AlwaysRendered(limit) ==
    /\ Len(readers) + Len(blobs) < MaxPending
    /\ Len(objectURLs) + Len(blobs) < limit
    /\ handleCropDone

\* Done button (part_001:220), rendered only inside the modal (part_001:206)
ClickDoneUpTo(limit) ==
    /\ ModalOpen
    /\ Len(readers) + Len(blobs) < MaxPending
    /\ Len(objectURLs) + Len(blobs) < limit
    /\ handleCropDone

ClickDone == ClickDoneUpTo(MaxHandles)

\* a callback that stores the crop in the slot of the step now shown
ToBlobCallback_CurrentStep ==
    /\ blobs # <<>>
    /\ LET blob == Head(blobs)
           preview == Len(objectURLs) + 1
       IN  IF blob.width = 0 \/ blob.height = 0
           THEN /\ blobs' = Tail(blobs)
                /\ UNCHANGED <<currentStep, images, isLoading, result, resultFormData,
                               cropVars, readers, fetches, objectURLs, toast>>
           ELSE /\ objectURLs' = Append(objectURLs, 0)
                /\ images' = [images EXCEPT
                                ![currentStepKey] =
                                    [file |-> preview, preview |-> preview]]
                /\ showCropper' = FALSE
                /\ cropImageSrc' = NoSrc
                /\ pendingStepKey' = NoKey
                /\ toast' = "Image cropped"
                /\ flowHasSelection' = FALSE
                /\ blobs' = Tail(blobs)
                /\ UNCHANGED <<currentStep, isLoading, result, resultFormData, completedCrop,
                               imageRef, readers, fetches>>

(***************************************************************************)
(* The callback given to canvas.toBlob (part_001:104-120).  The blob of a  *)
(* canvas without pixels is null.                                          *)
(***************************************************************************)
ToBlobCallback ==
    /\ blobs # <<>>
    /\ LET blob == Head(blobs)
           preview == Len(objectURLs) + 1
       IN  IF blob.width = 0 \/ blob.height = 0
           THEN /\ blobs' = Tail(blobs)
                /\ UNCHANGED <<currentStep, images, isLoading, result, resultFormData,
                               cropVars, readers, fetches, objectURLs, toast>>
           ELSE /\ objectURLs' = Append(objectURLs, 0)
                /\ images' = [images EXCEPT
                                ![blob.key] = [file |-> preview, preview |-> preview]]
                /\ showCropper' = FALSE
                /\ cropImageSrc' = NoSrc
                /\ pendingStepKey' = NoKey
                /\ toast' = "Image cropped"
                /\ flowHasSelection' = FALSE
                /\ blobs' = Tail(blobs)
                /\ UNCHANGED <<currentStep, isLoading, result, resultFormData, completedCrop,
                               imageRef, readers, fetches>>

----------------------------------------------------------------------------
(***************************************************************************)
(* handleAppraise up to the await of fetch (part_001:127-143).             *)
(***************************************************************************)
handleAppraise ==
    IF ~allImagesUploaded
    THEN UNCHANGED vars
    ELSE /\ isLoading' = TRUE
         /\ result' = NoResult
         /\ resultFormData' = NoFormData
         /\ fetches' = Append(fetches,
                [formData |-> [k \in StepKeys |-> images[k].file],
                 stepAtSubmit |-> currentStep])
         /\ UNCHANGED <<currentStep, images, cropVars, readers, blobs,
                        objectURLs, toast>>

\* Appraise button (part_001:349-367)
ClickAppraise ==
    /\ ~ModalOpen
    /\ Len(fetches) < MaxFetches
    /\ IF allImagesUploaded /\ ~isLoading
       THEN handleAppraise
       ELSE UNCHANGED vars

\* a success path that shows the notice but does not store the result
FetchSucceeds_NoResult(i, data) ==
    /\ i \in 1..Len(fetches)
    /\ toast' = "Appraisal complete!"
    /\ isLoading' = FALSE
    /\ fetches' = Remove(fetches, i)
    /\ UNCHANGED <<currentStep, images, result, resultFormData, cropVars, readers, blobs,
                   objectURLs>>

\* handleAppraise after the await, response.ok (part_001:149-155, 163-165)
FetchSucceeds(i, data) ==
    /\ i \in 1..Len(fetches)
    /\ result' = data
    /\ resultFormData' = fetches[i].formData
    /\ toast' = "Appraisal complete!"
    /\ isLoading' = FALSE
    /\ fetches' = Remove(fetches, i)
    /\ UNCHANGED <<currentStep, images, cropVars, readers, blobs, objectURLs>>

\* the failure path without the finally block
FetchFails_NoFinally(i) ==
    /\ i \in 1..Len(fetches)
    /\ toast' = "Appraisal failed"
    /\ fetches' = Remove(fetches, i)
    /\ UNCHANGED <<currentStep, images, isLoading, result, resultFormData, cropVars, readers,
                   blobs, objectURLs>>

\* handleAppraise after the await, fetch rejected or !response.ok
\* (part_001:145-147, 156-165)
FetchFails(i) ==
    /\ i \in 1..Len(fetches)
    /\ toast' = "Appraisal failed"
    /\ isLoading' = FALSE
    /\ fetches' = Remove(fetches, i)
    /\ UNCHANGED <<currentStep, images, result, resultFormData, cropVars, readers, blobs,
                   objectURLs>>

\* a reset that revokes the previews but keeps the slots
handleReset_KeepsImages ==
    /\ objectURLs' = [h \in 1..Len(objectURLs) |->
                        IF \E k \in StepKeys : images[k] # NoImage /\ images[k].preview = h
                        THEN objectURLs[h] + 1
                        ELSE objectURLs[h]]
    /\ result' = NoResult
    /\ resultFormData' = NoFormData
    /\ isLoading' = FALSE
    /\ currentStep' = 0
    /\ toast' = "Form reset"
    /\ UNCHANGED <<images, cropVars, asyncVars>>

----------------------------------------------------------------------------
\* handleReset (part_001:168-184)
handleReset ==
    /\ objectURLs' = [h \in 1..Len(objectURLs) |->
                        IF \E k \in StepKeys : images[k] # NoImage /\ images[k].preview = h
                        THEN objectURLs[h] + 1
                        ELSE objectURLs[h]]
    /\ images' = [k \in StepKeys |-> NoImage]
    /\ result' = NoResult
    /\ resultFormData' = NoFormData
    /\ isLoading' = FALSE
    /\ currentStep' = 0
    /\ toast' = "Form reset"
    /\ UNCHANGED <<cropVars, asyncVars>>

\* Reset button (part_001:422-431)
ClickReset ==
    /\ ~ModalOpen
    /\ IF allImagesUploaded \/ result # NoResult
       THEN handleReset
       ELSE UNCHANGED vars

\* handleNext (part_001:186-190)
handleNext ==
    IF currentStep < Len(steps) - 1
    THEN /\ currentStep' = currentStep + 1
         /\ UNCHANGED <<images, isLoading, result, resultFormData, cropVars, asyncVars,
                        objectURLs, toast>>
    ELSE UNCHANGED vars

\* Next disabled on the last step only
NextDisabled_LastOnly == isLastStep

\* Next disabled with the negation of the completion test lost
NextDisabled_NotNegated == isCurrentStepComplete \/ isLastStep

\* a Next button that is also disabled while the appraisal is loading
NextDisabled_WhileLoading == ~isCurrentStepComplete \/ isLastStep \/ isLoading

\* disabled of the Next button (part_001:314)
NextDisabled == ~isCurrentStepComplete \/ isLastStep

\* Next button (part_001:312-319)
ClickNext ==
    /\ ~ModalOpen
    /\ IF NextDisabled
       THEN UNCHANGED vars
       ELSE handleNext

\* handlePrevious (part_001:192-196)
handlePrevious ==
    IF currentStep > 0
    THEN /\ currentStep' = currentStep - 1
         /\ UNCHANGED <<images, isLoading, result, resultFormData, cropVars, asyncVars,
                        objectURLs, toast>>
    ELSE UNCHANGED vars

\* Previous disabled like Next, while the current slot is empty
PreviousDisabled_NeedsImage == currentStep = 0 \/ ~isCurrentStepComplete

\* disabled of the Previous button (part_001:304)
PreviousDisabled == currentStep = 0

\* Previous button (part_001:302-310)
ClickPrevious ==
    /\ ~ModalOpen
    /\ IF PreviousDisabled
       THEN UNCHANGED vars
       ELSE handlePrevious

----------------------------------------------------------------------------
Next ==
    \/ \E files \in FileLists : SelectFile(files)
    \/ \E i \in 1..MaxPending : ReaderOnload(i)
    \/ \E img \in ImgElements : ImageLoaded(img)
    \/ \E c \in Selections(imageRef) : CropComplete(c)
    \/ ClickCancel
    \/ ClickDone
    \/ ToBlobCallback
    \/ ClickAppraise
    \/ \E i \in 1..MaxFetches, g \in Grades : FetchSucceeds(i, [overallGrade |-> g])
    \/ \E i \in 1..MaxFetches : FetchFails(i)
    \/ ClickReset
    \/ ClickNext
    \/ ClickPrevious

Spec == Init /\ [][Next]_vars

(***************************************************************************)
(* The fetch of handleAppraise settles: the promise awaited at             *)
(* part_001:144 resolves or rejects.  SpecFair is Spec where the service   *)
(* eventually responds or the transport eventually fails.                  *)
(***************************************************************************)
ResponseArrives ==
    \/ \E i \in 1..MaxFetches, g \in Grades : FetchSucceeds(i, [overallGrade |-> g])
    \/ \E i \in 1..MaxFetches : FetchFails(i)

SpecFair == Spec /\ WF_vars(ResponseArrives)

(***************************************************************************)
(* The behaviours in which the user only captures, submits and starts      *)
(* over: every file is an image, every crop is the whole displayed image   *)
(* and is committed, and the steps are walked forward.  They are           *)
(* behaviours of the component too, followed for more object URLs than     *)
(* Spec follows.                                                           *)
(***************************************************************************)
PngFile == <<[type |-> <<"i", "m", "a", "g", "e", "/", "p", "n", "g">>]>>

NextResubmit ==
    \/ SelectFileUpTo(MaxHandlesResubmit, PngFile)
    \/ ReaderOnload(1)
    \/ \E img \in ImgElements : img.naturalWidth = img.width /\ ImageLoaded(img)
    \/ \E c \in Selections(imageRef) :
          c.width = imageRef.width /\ c.height = imageRef.height /\ CropComplete(c)
    \/ ClickDoneUpTo(MaxHandlesResubmit)
    \/ ToBlobCallback
    \/ ClickNext
    \/ ClickAppraise
    \/ \E i \in 1..MaxFetches, g \in Grades : FetchSucceeds(i, [overallGrade |-> g])
    \/ \E i \in 1..MaxFetches : FetchFails(i)
    \/ ClickReset

SpecResubmit == Init /\ [][NextResubmit]_vars

(***************************************************************************)
(* The behaviours of NextResubmit together with Previous and Cancel: every *)
(* button of the component, with image files and whole-image crops only,   *)
(* followed for one object URL more than Spec follows, so that a slot can  *)
(* be captured again after all four are filled.                            *)
(***************************************************************************)
NextRecapture ==
    \/ SelectFileUpTo(MaxHandlesRecapture, PngFile)
    \/ ReaderOnload(1)
    \/ \E img \in ImgElements : img.naturalWidth = img.width /\ ImageLoaded(img)
    \/ \E c \in Selections(imageRef) :
          c.width = imageRef.width /\ c.height = imageRef.height /\ CropComplete(c)
    \/ ClickCancel
    \/ ClickDoneUpTo(MaxHandlesRecapture)
    \/ ToBlobCallback
    \/ ClickAppraise
    \/ \E i \in 1..MaxFetches, g \in Grades : FetchSucceeds(i, [overallGrade |-> g])
    \/ \E i \in 1..MaxFetches : FetchFails(i)
    \/ ClickReset
    \/ ClickNext
    \/ ClickPrevious

SpecRecapture == Init /\ [][NextRecapture]_vars

----------------------------------------------------------------------------
(***************************************************************************)
(* Properties.                                                             *)
(***************************************************************************)
allButStep == <<images, isLoading, result, resultFormData, showCropper, completedCrop,
                cropImageSrc, imageRef, pendingStepKey, readers, blobs,
                fetches, objectURLs, toast, flowHasSelection>>

\* C1: in every reachable state the number of live (created and not yet
\* revoked) preview URLs equals the number of occupied slots.
C1_LiveHandlesEqualOccupiedSlots ==
    Cardinality(Live) = Cardinality(FilledSlots)

\* C2: in every reachable state at most one appraisal request is in flight.
C2_AtMostOneRequestInFlight ==
    Len(fetches) <= 1

\* C3: a reset with all four slots filled ends in the initial workflow
\* state: every slot empty, step 0, no result, no live preview URL.
C3_ResetYieldsInitialState ==
    [][(ClickReset /\ FilledSlots = StepKeys) =>
          /\ FilledSlots' = {}
          /\ currentStep' = 0
          /\ result' = NoResult
          /\ isLoading' = FALSE
          /\ Live' = {}]_vars

\* C4 as stated: when a submission fails, the slots and the step are what
\* they were when that submission was made, the workflow is no longer
\* submitting, and the next submit is accepted.
C4_FailureKeepsStateOfSubmit ==
    [][\A i \in 1..Len(fetches) :
          FetchFails(i) =>
             /\ \A k \in StepKeys : images'[k].file = fetches[i].formData[k]
             /\ currentStep' = fetches[i].stepAtSubmit
             /\ isLoading' = FALSE]_vars

\* C4 as amended: the failure of a submission changes no slot and not the
\* step and ends the loading state; and a submit made while not loading,
\* with all four slots filled, issues a request with the four files.
C4_FailureChangesNoSlot ==
    /\ [][\A i \in 1..Len(fetches) :
             FetchFails(i) =>
                /\ images' = images
                /\ currentStep' = currentStep
                /\ isLoading' = FALSE
                /\ result' = result]_vars
    /\ [][(ClickAppraise /\ ~isLoading /\ FilledSlots = StepKeys) =>
             /\ Len(fetches') = Len(fetches) + 1
             /\ \A k \in StepKeys :
                  fetches'[Len(fetches')].formData[k] = images[k].file
             /\ isLoading' = TRUE]_vars

\* a failure was reported and a later submit is in flight
C4_Witness ==
    /\ toast = "Appraisal failed"
    /\ Len(fetches) = 1
    /\ isLoading

\* C5: a request is only issued in a state where all four slots hold an
\* image, and with a slot empty a submit changes nothing.
C5_RequestOnlyWhenComplete ==
    /\ \A i \in 1..Len(fetches) : \A k \in StepKeys : fetches[i].formData[k] # 0
    /\ FilledSlots # StepKeys =>
          /\ ~ENABLED (Next /\ Len(fetches') > Len(fetches))
          /\ ~ENABLED <<ClickAppraise>>_vars

\* a request is in flight, and a slot has been emptied again by a reset
C5_Witness ==
    /\ Len(fetches) = 1
    /\ FilledSlots = {}

\* C6: a click on Next changes the step only when the slot of the current
\* step is filled and the step is not the last, then by exactly one, and
\* changes nothing else; otherwise it changes nothing at all.
C6_AdvanceOnlyWhenFilled ==
    [][ClickNext =>
          IF images[steps[currentStep + 1]].preview # 0 /\ currentStep # 3
          THEN currentStep' = currentStep + 1 /\ UNCHANGED allButStep
          ELSE UNCHANGED vars]_vars

\* the step was advanced, and the new step cannot be advanced from
C6_Witness ==
    /\ currentStep = 1
    /\ images["front"].preview # 0
    /\ images["back"].preview = 0
    /\ ~ModalOpen

\* C7 as stated: a click on Next is a no-op iff the current slot is unfilled.
C7_AdvanceNoOpIffUnfilled ==
    ~ModalOpen =>
       ((~ENABLED <<ClickNext>>_vars) <=> images[steps[currentStep + 1]].preview = 0)

\* C7 as amended: a click on Next is a no-op iff the current slot is
\* unfilled or the current step is the last one.
C7_AdvanceNoOpIffUnfilledOrLast ==
    ~ModalOpen =>
       ((~ENABLED <<ClickNext>>_vars) <=>
           (images[steps[currentStep + 1]].preview = 0 \/ currentStep = 3))

\* the last step with its slot filled
C7_Witness ==
    /\ currentStep = 3
    /\ images["bottomRight"].preview # 0
    /\ ~ModalOpen

\* C8: a click on Previous lowers the step by exactly one whenever it is
\* above 0, whatever the slots hold, and changes nothing else; at step 0 it
\* changes nothing; and the step is always within 0..3.
C8_RetreatUnconditional ==
    /\ currentStep \in 0..3
    /\ (~ModalOpen /\ currentStep > 0) =>
          ENABLED (ClickPrevious /\ currentStep' = currentStep - 1
                                 /\ UNCHANGED allButStep)
    /\ ~ENABLED (ClickPrevious /\ ~(currentStep > 0 /\ currentStep' = currentStep - 1
                                                 /\ UNCHANGED allButStep)
                               /\ ~UNCHANGED vars)

\* back at step 0 from a later step: the second slot was filled at step 1,
\* and no reset has emptied it
C8_Witness ==
    /\ currentStep = 0
    /\ images["back"].preview # 0
    /\ images["topLeft"].preview = 0
    /\ ~ModalOpen

\* C9: the image a commit produces has the selection's width and height
\* scaled from displayed to native resolution.
C9_CroppedSizeIsNativeSize ==
    [][(ClickDone /\ Len(blobs') = Len(blobs) + 1) =>
          LET blob == blobs'[Len(blobs')]
          IN  /\ blob.width * imageRef.width
                   = completedCrop.width * imageRef.naturalWidth
              /\ blob.height * imageRef.height
                   = completedCrop.height * imageRef.naturalHeight]_vars

C11_CommitWithoutSelectionFails ==
    (ModalOpen /\ ~flowHasSelection) =>
        ~ENABLED (/\ ClickDone
                  /\ Len(blobs') > Len(blobs)
                  /\ blobs'[Len(blobs')].width > 0
                  /\ blobs'[Len(blobs')].height > 0)

\* C12: the completed selection does not outlive the crop modal it was made
\* in: with the modal closed, or open without a selection of its own, there
\* is no completed selection.
C12_SelectionDiscardedOnClose ==
    (~ModalOpen \/ ~flowHasSelection) => completedCrop = NoCrop

\* C13: Cancel leaves no source image, no pending step and no selection
\* behind, and changes no slot, no preview URL, not the step and not the
\* result.
C13_CancelDiscardsSubFlow ==
    [][ClickCancel =>
          /\ cropImageSrc' = NoSrc
          /\ pendingStepKey' = NoKey
          /\ completedCrop' = NoCrop
          /\ UNCHANGED <<images, objectURLs, currentStep, result>>]_vars

C15_CropStateExactlyWhileModalOpen ==
    /\ (cropImageSrc # NoSrc \/ pendingStepKey # NoKey) <=> ModalOpen
    /\ ModalOpen =>
          ~ENABLED <<\/ ClickNext
                     \/ ClickPrevious
                     \/ ClickAppraise
                     \/ ClickReset
                     \/ \E files \in FileLists : SelectFile(files)>>_vars

\* a click on Next moves to the following step
AdvanceSucceeds ==
    ENABLED (ClickNext /\ currentStep' = currentStep + 1)

\* C16: a crop that is stored changes exactly one slot, the step that was
\* pending when Done was clicked: that slot then holds the cropped file with
\* a live preview URL, the other slots and the current step are unchanged,
\* and a click on Next from that slot's step then advances.
C16_CommitFillsPendingSlotThenAdvance ==
    /\ [][(ClickDone /\ Len(blobs') > Len(blobs)) =>
             blobs'[Len(blobs')].key = pendingStepKey]_vars
    /\ [][(ToBlobCallback /\ Len(objectURLs') > Len(objectURLs)) =>
             LET k == Head(blobs).key
             IN  /\ images'[k].file # 0
                 /\ images'[k].preview \in Live'
                 /\ images'[k] # images[k]
                 /\ \A j \in StepKeys \ {k} : images'[j] = images[j]
                 /\ currentStep' = currentStep
                 /\ (k = steps[currentStep + 1]) => AdvanceSucceeds']_vars

\* C16 (amended): as C16, where the click on Next advances unless the slot
\* is the one of the last step.
C16_CommitFillsPendingSlot ==
    /\ [][(ClickDone /\ Len(blobs') > Len(blobs)) =>
             blobs'[Len(blobs')].key = pendingStepKey]_vars
    /\ [][(ToBlobCallback /\ Len(objectURLs') > Len(objectURLs)) =>
             LET k == Head(blobs).key
             IN  /\ images'[k].file # 0
                 /\ images'[k].preview \in Live'
                 /\ images'[k] # images[k]
                 /\ \A j \in StepKeys \ {k} : images'[j] = images[j]
                 /\ currentStep' = currentStep
                 /\ (k = steps[currentStep + 1] /\ currentStep < 3) =>
                        AdvanceSucceeds']_vars

\* the crop for the first step has just been stored: the front slot holds
\* the newest preview URL, the step is still 0 and the modal is closed
C16_Witness ==
    /\ toast = "Image cropped"
    /\ currentStep = 0
    /\ ~ModalOpen
    /\ objectURLs # <<>>
    /\ images["front"].preview = Len(objectURLs)
    /\ images["front"].preview \in Live
    /\ images["back"].preview = 0

\* C17: a request leaves flight only by its response or its failure, a
\* response stores exactly the result it carries, and every state in which
\* the appraisal is loading is followed by one in which it is not and the
\* last notice is that of a stored result or that of a failure.
C17_SubmissionRunsToCompletion ==
    /\ [][fetches' # fetches =>
             \/ \E i \in 1..Len(fetches) : fetches' = Remove(fetches, i) /\ ~isLoading'
             \/ fetches' = Append(fetches, fetches'[Len(fetches')]) /\ isLoading']_vars
    /\ [][\A i \in 1..Len(fetches), g \in Grades :
             FetchSucceeds(i, [overallGrade |-> g]) =>
                /\ result' = [overallGrade |-> g]
                /\ toast' = "Appraisal complete!"
                /\ ~isLoading']_vars
    /\ [][\A i \in 1..Len(fetches) :
             FetchFails(i) => toast' = "Appraisal failed" /\ ~isLoading']_vars
    /\ isLoading ~>
          /\ ~isLoading
          /\ \/ toast = "Appraisal complete!" /\ result # NoResult
             \/ toast = "Appraisal failed"

\* an appraisal has succeeded: the second of two possible results is stored
C17_Witness ==
    /\ ~isLoading
    /\ fetches = <<>>
    /\ toast = "Appraisal complete!"
    /\ result = [overallGrade |-> MaxGrade]

\* C18: while an appraisal is loading a click on Appraise changes nothing,
\* and Next, Previous, the file input, Done, Cancel and the storing of a
\* crop are accepted under conditions, and with effects on the step and the
\* slots, in which the loading flag plays no part.
C18_OnlyAppraiseDisabledWhileLoading ==
    /\ isLoading => ~ENABLED <<ClickAppraise>>_vars
    /\ (~ModalOpen /\ currentStep > 0) =>
          ENABLED (/\ ClickPrevious
                   /\ currentStep' = currentStep - 1
                   /\ images' = images)
    /\ (~ModalOpen /\ currentStep < 3 /\ steps[currentStep + 1] \in FilledSlots) =>
          ENABLED (/\ ClickNext
                   /\ currentStep' = currentStep + 1
                   /\ images' = images)
    /\ (/\ ~ModalOpen
        /\ Len(readers) + Len(blobs) < MaxPending
        /\ Len(objectURLs) + Len(readers) + Len(blobs) < MaxHandlesRecapture) =>
          ENABLED (/\ SelectFileUpTo(MaxHandlesRecapture, PngFile)
                   /\ readers' = Append(readers, steps[currentStep + 1])
                   /\ UNCHANGED <<currentStep, images>>)
    /\ ModalOpen =>
          ENABLED (/\ ClickCancel
                   /\ ~ModalOpen'
                   /\ UNCHANGED <<currentStep, images>>)
    /\ (/\ ModalOpen
        /\ completedCrop # NoCrop
        /\ imageRef # NoImg
        /\ pendingStepKey # NoKey
        /\ Len(readers) + Len(blobs) < MaxPending
        /\ Len(objectURLs) + Len(blobs) < MaxHandlesRecapture) =>
          ENABLED (/\ ClickDoneUpTo(MaxHandlesRecapture)
                   /\ Len(blobs') = Len(blobs) + 1
                   /\ blobs'[Len(blobs')].key = pendingStepKey
                   /\ UNCHANGED <<currentStep, images>>)
    /\ (blobs # <<>> /\ Head(blobs).width > 0 /\ Head(blobs).height > 0) =>
          ENABLED (/\ ToBlobCallback
                   /\ currentStep' = currentStep
                   /\ images' = [images EXCEPT
                         ![Head(blobs).key] = [file |-> Len(objectURLs) + 1,
                                               preview |-> Len(objectURLs) + 1]])

\* during an appraisal the user replaced the image of a slot: the request
\* in flight carries another file for that slot than the slot now holds
C18_Witness ==
    /\ isLoading
    /\ Len(fetches) = 1
    /\ \E k \in StepKeys :
          /\ images[k].file # 0
          /\ images[k].file # fetches[1].formData[k]
    /\ currentStep # fetches[1].stepAtSubmit

\* C19: every preview URL created is revoked exactly once: none is revoked
\* twice, and after a reset none that was created before it is unrevoked.
C19_HandlesReleasedExactlyOnce ==
    /\ [][\A h \in 1..Len(objectURLs) : objectURLs'[h] <= 1]_vars
    /\ [][(ClickReset /\ toast' = "Form reset") =>
             \A h \in 1..Len(objectURLs) : objectURLs'[h] = 1]_vars

\* C20: in every reachable state the preview URL held by each occupied slot
\* has been created and has not been revoked.
C20_SlotPreviewsAreLive ==
    \A k \in FilledSlots :
        /\ images[k].preview \in 1..Len(objectURLs)
        /\ objectURLs[images[k].preview] = 0

\* after a reset that revoked preview URLs a slot was filled again
C20_Witness ==
    /\ \E h \in 1..Len(objectURLs) : objectURLs[h] > 0
    /\ FilledSlots # {}

\* C21: once a reset has left the component without a result and not
\* loading, it holds no result and is not loading until a click on
\* Appraise is accepted: the response or the failure of a request made
\* before the reset stores no result.  Stated for every state without
\* result and not loading, of which the state after a reset is one.
C21_NoResultUntilNextSubmit ==
    [][(~isLoading /\ result = NoResult /\ Len(fetches') <= Len(fetches)) =>
          (~isLoading' /\ result' = NoResult)]_vars

\* C22: whenever a result is held while the four slots are filled, it is
\* the response to a request that carried exactly the four files now in the
\* slots.
C22_ResultIsOfCurrentImages ==
    (result # NoResult /\ allImagesUploaded) =>
        \A k \in StepKeys : resultFormData[k] = images[k].file

\* C23: an accepted click on Appraise leaves no result held, and while a
\* request is in flight no result is held, so that none is held either
\* when that request fails.
C23_NoResultWhileRequestInFlight ==
    /\ fetches # <<>> => result = NoResult
    /\ ~ENABLED (/\ ClickAppraise
                 /\ Len(fetches') > Len(fetches)
                 /\ result' # NoResult)

====
